---- MODULE Spec2Model ----
(***************************************************************************)
(* A model of the OpenUSD Exchange sample programs: the shared             *)
(* command-line parser (common/include/commandLine.h), the file-system     *)
(* helpers (common/include/sysUtils.h), the prim helpers                   *)
(* (common/include/usdUtils.h) and the main() of every sample.             *)
(*                                                                         *)
(* Strings that the code inspects (paths, extensions, prim names) are      *)
(* sequences of one-character strings, so that extension(), iequals() and  *)
(* the name algorithms are computed the way the code computes them.        *)
(***************************************************************************)
EXTENDS Integers, Sequences, FiniteSets, TLC

VARIABLES
    argv,    \* the command line of the current run: [prog, usda, help, bad, path]
    args,    \* samples::Args returned by parseCommonOptions (NoArgs before that)
    pc,      \* position of main(): 0 before the arguments are parsed, then the step
    status,  \* Running, or how the run ended: [how |-> "return"/"exit", code |-> n]
    out,     \* the lines printed on std::cout by the current run
    trace,   \* the SDK and file-system operations of the current run, in order
    stage,   \* the root stage held by the current run (NoStage when none)
    locals,  \* main's local prim handles and reserved names
    disk,    \* the layer files on disk: a function from path to layer
    start,   \* the files on disk when the current run started
    runs     \* the number of runs started so far

vars == <<argv, args, pc, status, out, trace, stage, locals, disk, start, runs>>

----------------------------------------------------------------------------
(* Characters and strings                                                  *)

UpperChars == <<"A","B","C","D","E","F","G","H","I","J","K","L","M",
                "N","O","P","Q","R","S","T","U","V","W","X","Y","Z">>
LowerChars == <<"a","b","c","d","e","f","g","h","i","j","k","l","m",
                "n","o","p","q","r","s","t","u","v","w","x","y","z">>
DigitChars == <<"0","1","2","3","4","5","6","7","8","9">>

\* std::tolower in the "C" locale
tolower(c) ==
    IF \E i \in 1..26 : UpperChars[i] = c
    THEN LowerChars[CHOOSE i \in 1..26 : UpperChars[i] = c]
    ELSE c

\* the mutant compares the characters as they are
ichar_equals_exact(a, b) == a = b

ichar_equals(a, b) == tolower(a) = tolower(b)

\* std::equal over two ranges: same length and ichar_equals element-wise
iequals(a, b) ==
    /\ Len(a) = Len(b)
    /\ \A i \in 1..Len(a) : ichar_equals(a[i], b[i])

\* the index of the last occurrence of character c in s, 0 when there is none
LastIndexOf(s, c) ==
    IF \E i \in 1..Len(s) : s[i] = c
    THEN CHOOSE i \in 1..Len(s) : s[i] = c /\ \A j \in (i+1)..Len(s) : s[j] # c
    ELSE 0

\* std::filesystem::path::filename: what follows the last directory separator
filename(p) == SubSeq(p, LastIndexOf(p, "/") + 1, Len(p))

\* std::filesystem::path::parent_path: what precedes the last separator
parent_path(p) ==
    IF LastIndexOf(p, "/") <= 1 THEN SubSeq(p, 1, LastIndexOf(p, "/"))
    ELSE SubSeq(p, 1, LastIndexOf(p, "/") - 1)

\* std::filesystem::path::extension: from the rightmost period of the filename
\* to its end, empty when the filename is "." or "..", has no period, or has
\* its only period as its first character
extension(p) ==
    LET f == filename(p)
        k == LastIndexOf(f, ".")
    IN  IF k <= 1 \/ f = <<".", ".">> THEN <<>> ELSE SubSeq(f, k, Len(f))

Ext_usd  == <<".","u","s","d">>
Ext_usda == <<".","u","s","d","a">>
Ext_usdc == <<".","u","s","d","c">>

----------------------------------------------------------------------------
(* sysUtils.h                                                              *)

\* pxr::ArchNormPath(pxr::ArchGetTmpDir()) of the machine the samples run on
TmpDir == <<"/","t">>

\* "%s/usdex/sample%s"
getDefaultStagePath(ext) ==
    TmpDir \o <<"/","u","s","d","e","x","/","s","a","m","p","l","e">> \o ext

----------------------------------------------------------------------------
(* commandLine.h                                                           *)

\* struct Args before parseCommonOptions has returned
NoArgs == [stagePath |-> <<>>, fileFormatArgs |-> {}]

\* { pxr::UsdUsdFileFormatTokens->FormatArg, pxr::UsdUsdaFileFormatTokens->Id }
FormatArgUsda == {<<"target", "usda">>}

MsgHelp         == "usage"
MsgBadOption    == "Error parsing options"
MsgInconsistent == "Error parsing arguments: Inconsistent use of --usda with a .usdc stage"

\* the mutant keeps the binary default under --usda
DefaultStagePath_usdc(usda) == getDefaultStagePath(Ext_usdc)

\* args.stagePath when --path is not given: the .usdc default, replaced by
\* the .usda default when --usda is set
DefaultStagePath(usda) ==
    IF usda THEN getDefaultStagePath(Ext_usda) ELSE getDefaultStagePath(Ext_usdc)

\* the test that guards the "Inconsistent use" exit
InconsistentUsda(usda, path) == usda /\ iequals(extension(path), Ext_usdc)

\* the mutant steers the format for every path given with --usda
FileFormatArgsFor_always(usda, path) == IF usda THEN FormatArgUsda ELSE {}

\* args.fileFormatArgs for a given --path
FileFormatArgsFor(usda, path) ==
    IF usda /\ iequals(extension(path), Ext_usd) THEN FormatArgUsda ELSE {}

\* parseCommonOptions: what it prints, whether it returns or exits, and the
\* Args it returns.  a.bad: cxxopts throws OptionException (an unknown option
\* or a missing value), a.help: --help given, a.usda: --usda, a.hasPath: --path
\* given, with value a.path
parseCommonOptions(a) ==
    IF a.bad THEN [how |-> "exit", code |-> 2, out |-> <<MsgBadOption, MsgHelp>>, args |-> NoArgs]
    ELSE IF a.help THEN [how |-> "exit", code |-> 0, out |-> <<MsgHelp>>, args |-> NoArgs]
    ELSE IF ~a.hasPath
         THEN [how |-> "return", code |-> 0, out |-> <<>>,
               args |-> [stagePath |-> DefaultStagePath(a.usda), fileFormatArgs |-> {}]]
    ELSE IF InconsistentUsda(a.usda, a.path)
         THEN [how |-> "exit", code |-> 2, out |-> <<MsgInconsistent>>, args |-> NoArgs]
    ELSE [how |-> "return", code |-> 0, out |-> <<>>,
          args |-> [stagePath |-> a.path, fileFormatArgs |-> FileFormatArgsFor(a.usda, a.path)]]

----------------------------------------------------------------------------
(* Prim and file names used by the samples, as character sequences         *)

Names == [
    World |-> <<"W","o","r","l","d">>,
    cube |-> <<"c","u","b","e">>,
    distantLight |-> <<"d","i","s","t","a","n","t","L","i","g","h","t">>,
    cubeMesh |-> <<"c","u","b","e","M","e","s","h">>,
    Looks |-> <<"L","o","o","k","s">>,
    cubePbr |-> <<"c","u","b","e","P","b","r">>,
    sphereUvwPbr |-> <<"s","p","h","e","r","e","U","v","w","P","b","r">>,
    previewSurfacePbr |-> <<"p","r","e","v","i","e","w","S","u","r","f","a","c","e","P","b","r">>,
    pbrMesh |-> <<"p","b","r","M","e","s","h">>,
    pbrSphere |-> <<"p","b","r","S","p","h","e","r","e">>,
    previewSurfaceMesh |-> <<"p","r","e","v","i","e","w","S","u","r","f","a","c","e","M","e","s","h">>,
    rectLight |-> <<"r","e","c","t","L","i","g","h","t">>,
    domeLight |-> <<"d","o","m","e","L","i","g","h","t">>,
    telephotoCamera |-> <<"t","e","l","e","p","h","o","t","o","C","a","m","e","r","a">>,
    wideCamera |-> <<"w","i","d","e","C","a","m","e","r","a">>,
    groundXform |-> <<"g","r","o","u","n","d","X","f","o","r","m">>,
    groundCube |-> <<"g","r","o","u","n","d","C","u","b","e">>,
    quatCube |-> <<"q","u","a","t","C","u","b","e">>,
    rocket |-> <<"r","o","c","k","e","t">>,
    tube |-> <<"t","u","b","e">>,
    nose |-> <<"n","o","s","e">>,
    fin |-> <<"f","i","n">>,
    house |-> <<"h","o","u","s","e">>,
    wall |-> <<"w","a","l","l">>,
    roof |-> <<"r","o","o","f">>,
    door |-> <<"d","o","o","r">>,
    window |-> <<"w","i","n","d","o","w">>,
    referencePrim |-> <<"r","e","f","e","r","e","n","c","e","P","r","i","m">>,
    payloadPrim |-> <<"p","a","y","l","o","a","d","P","r","i","m">>,
    Cube_2x2x2 |-> <<"C","u","b","e","_","2","x","2","x","2">>,
    FlowerPlanter |-> <<"F","l","o","w","e","r","P","l","a","n","t","e","r">>,
    skelRootGroup |-> <<"s","k","e","l","R","o","o","t","G","r","o","u","p">>,
    skel |-> <<"s","k","e","l">>,
    anim |-> <<"a","n","i","m">>,
    skinnedMesh |-> <<"s","k","i","n","n","e","d","M","e","s","h">>,
    PhysicsScene |-> <<"P","h","y","s","i","c","s","S","c","e","n","e">>,
    ground |-> <<"g","r","o","u","n","d">>,
    SimpleRigidBodies |-> <<"S","i","m","p","l","e","R","i","g","i","d","B","o","d","i","e","s">>,
    SimpleFixedJoints |-> <<"S","i","m","p","l","e","F","i","x","e","d","J","o","i","n","t","s">>,
    SimpleRevoluteJoints |-> <<"S","i","m","p","l","e","R","e","v","o","l","u","t","e","J","o","i","n","t","s">>,
    SimplePrismaticJoints |-> <<"S","i","m","p","l","e","P","r","i","s","m","a","t","i","c","J","o","i","n","t","s">>,
    SimpleSphericalJoints |-> <<"S","i","m","p","l","e","S","p","h","e","r","i","c","a","l","J","o","i","n","t","s">>,
    physicsMaterials |-> <<"p","h","y","s","i","c","s","M","a","t","e","r","i","a","l","s">> ]

\* fmt::format("Cube_{0}_{1}_{2}", i, j, k)
CubeName(i, j, k) == <<"C","u","b","e","_">> \o <<DigitChars[i+1], "_", DigitChars[j+1], "_", DigitChars[k+1]>>

\* componentStageName of createAsset: "FlowerPlanter.usda"
FlowerPlanterFile == Names.FlowerPlanter \o Ext_usda

----------------------------------------------------------------------------
(* Stages and prims.  A stage is its root layer: the identifier it is      *)
(* saved at, its format, its metadata and its prims in definition order.   *)
(* A prim is [path, type, displayName, apis]; a path is a sequence of      *)
(* names starting at the default prim.                                     *)

NoStage == [valid |-> FALSE, identifier |-> <<>>, format |-> "", defaultPrim |-> <<>>,
            upAxis |-> "", linearUnits |-> "", authoring |-> "", comment |-> "", prims |-> <<>>]

\* samples::getSamplesAuthoringMetadata()
getSamplesAuthoringMetadata == "OpenUSD Exchange Samples"

\* the layer format a new layer gets at `identifier`: the extension decides,
\* and for .usd the "target" file format argument (binary when there is none)
FormatOf(identifier, fileFormatArgs) ==
    LET e == extension(identifier)
    IN  IF iequals(e, Ext_usda) THEN "usda"
        ELSE IF iequals(e, Ext_usdc) THEN "usdc"
        ELSE IF iequals(e, Ext_usd)
             THEN (IF <<"target", "usda">> \in fileFormatArgs THEN "usda" ELSE "usdc")
        ELSE "unsupported"

\* the stage usdex::core::createStage returns on success: a default prim of
\* type Scope and the stage metrics and authoring metadata authored
NewStage(identifier, defaultPrimName, upAxis, linearUnits, authoringMetadata, fileFormatArgs) ==
    [valid |-> TRUE, identifier |-> identifier, format |-> FormatOf(identifier, fileFormatArgs),
     defaultPrim |-> defaultPrimName, upAxis |-> upAxis, linearUnits |-> linearUnits,
     authoring |-> authoringMetadata, comment |-> "",
     prims |-> << [path |-> <<defaultPrimName>>, type |-> "Scope", displayName |-> <<>>, apis |-> {}] >>]

\* stage->GetDefaultPrim().GetPath()
DefaultPrimPath(st) == <<st.defaultPrim>>

PrimPaths(st) == {st.prims[i].path : i \in 1..Len(st.prims)}

PrimIndex(st, path) == CHOOSE i \in 1..Len(st.prims) : st.prims[i].path = path

\* the names of the children of the prim at parent
ChildNames(st, parent) ==
    {p[Len(p)] : p \in {q \in PrimPaths(st) : Len(q) = Len(parent) + 1 /\ SubSeq(q, 1, Len(parent)) = parent}}

\* the prims at or below root: pxr::UsdPrimRange(root)
PrimRange(st, root) ==
    {i \in 1..Len(st.prims) :
        /\ Len(st.prims[i].path) >= Len(root)
        /\ SubSeq(st.prims[i].path, 1, Len(root)) = root}

\* the decimal digits of n >= 0
RECURSIVE DecimalChars(_)
DecimalChars(n) ==
    IF n < 10 THEN <<DigitChars[n + 1]>>
    ELSE DecimalChars(n \div 10) \o <<DigitChars[(n % 10) + 1]>>

IsAlpha(c) == \E i \in 1..26 : UpperChars[i] = c \/ LowerChars[i] = c
IsDigit(c) == \E i \in 1..10 : DigitChars[i] = c

\* usdex::core::getValidPrimName: every character that is not a letter, a
\* digit or an underscore becomes an underscore; a leading digit gets an
\* underscore before it; the empty name becomes "_"
getValidPrimName(name) ==
    LET fixed == [i \in 1..Len(name) |->
                    IF IsAlpha(name[i]) \/ IsDigit(name[i]) \/ name[i] = "_" THEN name[i] ELSE "_"]
    IN  IF Len(name) = 0 THEN <<"_">>
        ELSE IF IsDigit(name[1]) THEN <<"_">> \o fixed
        ELSE fixed

\* the mutant returns the valid name without looking at the names in use
UniqueName_asis(valid, taken) == valid

\* the first of valid, valid_1, valid_2, ... that is not in taken
UniqueName(valid, taken) ==
    IF valid \notin taken THEN valid
    ELSE LET n == CHOOSE k \in 1..(Cardinality(taken) + 1) :
                     /\ (valid \o <<"_">> \o DecimalChars(k)) \notin taken
                     /\ \A j \in 1..(k - 1) : (valid \o <<"_">> \o DecimalChars(j)) \in taken
         IN  valid \o <<"_">> \o DecimalChars(n)

\* names made valid and unique among taken and among themselves, in order
RECURSIVE ValidUniqueNames(_, _)
ValidUniqueNames(names, taken) ==
    IF names = <<>> THEN <<>>
    ELSE LET n == UniqueName(getValidPrimName(Head(names)), taken)
         IN  <<n>> \o ValidUniqueNames(Tail(names), taken \cup {n})

\* usdex::core::getValidChildNames(parent, names): valid names that no child
\* of parent has, pairwise distinct
getValidChildNames(st, parent, names) == ValidUniqueNames(names, ChildNames(st, parent))

\* usdex::core::getValidChildName(parent, name)
getValidChildName(st, parent, name) == getValidChildNames(st, parent, <<name>>)[1]

\* pxr::Usd<Schema>::Define(stage, path): the prim at path gets the type; a
\* prim that is not there yet is added after the others
DefinePrim(st, path, type) ==
    IF path \in PrimPaths(st)
    THEN [st EXCEPT !.prims[PrimIndex(st, path)].type = type]
    ELSE [st EXCEPT !.prims = Append(@, [path |-> path, type |-> type, displayName |-> <<>>, apis |-> {}])]

\* usdex::core::setDisplayName(prim, name)
setDisplayName(st, path, name) == [st EXCEPT !.prims[PrimIndex(st, path)].displayName = name]

\* pxr::Usd<API>::Apply(prim)
ApplyAPI(st, path, api) == [st EXCEPT !.prims[PrimIndex(st, path)].apis = @ \cup {api}]

----------------------------------------------------------------------------
(* usdUtils.h: the prim helpers, as functions from a stage to the stage    *)
(* with the prim defined                                                   *)

\* the path the helpers define their prim at: parent.GetPath().AppendChild(
\* getValidChildNames(parent, { name })[0])
HelperPath(st, parent, name) == parent \o <<getValidChildNames(st, parent, <<name>>)[1]>>

createCube(st, parent, name)     == DefinePrim(st, HelperPath(st, parent, name), "Cube")
createCone(st, parent, name)     == DefinePrim(st, HelperPath(st, parent, name), "Cone")
createSphere(st, parent, name)   == DefinePrim(st, HelperPath(st, parent, name), "Sphere")
createCylinder(st, parent, name) == DefinePrim(st, HelperPath(st, parent, name), "Cylinder")
createCapsule(st, parent, name)  == DefinePrim(st, HelperPath(st, parent, name), "Capsule")

\* createCubeMesh; ok: usdex::core::definePolyMesh returned a valid mesh.
\* The display name is set when the prim name differs from meshName
createCubeMesh(st, parent, meshName, ok) ==
    LET path == HelperPath(st, parent, meshName)
        st1  == DefinePrim(st, path, "Mesh")
    IN  IF ~ok THEN st
        ELSE IF meshName # path[Len(path)] THEN setDisplayName(st1, path, meshName)
        ELSE st1

\* the line createCubeMesh prints when it renames the mesh
MsgRenaming == "Renaming input mesh name"

createCubeMeshOut(st, parent, meshName) ==
    IF meshName # HelperPath(st, parent, meshName)[Len(parent) + 1] THEN <<MsgRenaming>> ELSE <<>>

\* the helper named h applied to the stage
Helper(h, st, parent, name) ==
    CASE h = "createCube"     -> createCube(st, parent, name)
      [] h = "createCone"     -> createCone(st, parent, name)
      [] h = "createSphere"   -> createSphere(st, parent, name)
      [] h = "createCylinder" -> createCylinder(st, parent, name)
      [] h = "createCapsule"  -> createCapsule(st, parent, name)

HelperType(h) ==
    CASE h = "createCube"     -> "Cube"
      [] h = "createCone"     -> "Cone"
      [] h = "createSphere"   -> "Sphere"
      [] h = "createCylinder" -> "Cylinder"
      [] h = "createCapsule"  -> "Capsule"
      [] h = "createCubeMesh" -> "Mesh"

----------------------------------------------------------------------------
(* The main() of every sample, as the sequence of its steps.  A step is    *)
(* one statement of main (or of the function main calls): op says what it  *)
(* does, parent/from name the local variables it reads, as the local it    *)
(* assigns, checked whether main tests the result and msg what it prints   *)
(* before `return -1` when the test fails.                                 *)

Step(op, parent, naming, name, from, idx, type, as, checked, msg) ==
    [op |-> op, parent |-> parent, naming |-> naming, name |-> name, from |-> from, idx |-> idx,
     type |-> type, as |-> as, checked |-> checked, msg |-> msg]

\* std::cout << ... << std::endl of an informative line
PrintStep(msg) == Step("print", "", "", <<>>, "", 0, "", "", FALSE, msg)
\* samples::openOrCreateStage(args.stagePath, "World", args.fileFormatArgs)
OpenStep == Step("open", "", "", Names.World, "", 0, "", "", TRUE, "Error opening or creating stage, exiting")
\* an SDK call that defines no prim and whose result is not tested
CallStep(what) == Step("call", "", "", <<>>, "", 0, what, "", FALSE, "")
\* <Schema>::Define or usdex::core::define<Schema> under the prim `parent`;
\* naming: "unique" (getValidChildNames at this point), "valid"
\* (getValidPrimName), "asis" (the token as given), "reserved" (the idx-th
\* name of an earlier getValidChildNames, local `from`)
DefineStep(parent, naming, name, type, as) ==
    Step("define", parent, naming, name, "", 0, type, as, FALSE, "")
DefineReserved(parent, from, idx, type, as) ==
    Step("define", parent, "reserved", <<>>, from, idx, type, as, FALSE, "")
Checked(step, msg) == [step EXCEPT !.checked = TRUE, !.msg = msg]
\* a helper of usdUtils.h called with the prim `parent` and the name
HelperStep(h, parent, name, as) == Step("helper", parent, "unique", name, "", 0, h, as, FALSE, "")
\* samples::createCubeMesh, whose result main tests
MeshStep(name, as) ==
    Step("mesh", "default", "unique", name, "", 0, "Mesh", as, TRUE, "Error creating cube mesh, exiting")
\* usdex::core::getValidChildNames(parent, names), kept in local `as`
ReserveStep(parent, names, as) == Step("reserve", parent, "", names, "", 0, "", as, FALSE, "")
\* as = samples::copyTextureToStagePath(args.stagePath, file)
TextureStep(file, as) == Step("texture", "", "", <<>>, "", 0, file, as, FALSE, "")
\* usdex::core::setDisplayName(prim, name) on the prim of local `parent`
DisplayNameStep(parent, name) == Step("displayName", parent, "", name, "", 0, "", "", FALSE, "")
\* usdex::core::saveStage(stage, "OpenUSD Exchange Samples")
SaveStep == Step("save", "", "", <<>>, "", 0, "", "", FALSE, "")
\* return 0
ReturnStep == Step("return", "", "", <<>>, "", 0, "", "", FALSE, "")

MsgStagePath == "Stage path"

\* the mutant opens an existing stage instead of creating one
createStageMain_open == <<
    CallStep("activateDiagnosticsDelegate"),
    PrintStep(MsgStagePath),
    OpenStep,
    HelperStep("createCube", "default", Names.cube, ""),
    Checked(DefineStep("default", "valid", Names.distantLight, "DistantLight", "light"),
            "Error creating distant light, exiting"),
    SaveStep, ReturnStep >>

createStageMain == <<
    CallStep("activateDiagnosticsDelegate"),
    PrintStep(MsgStagePath),
    Step("create", "", "", Names.World, "", 0, "", "", TRUE, "Error creating stage, exiting"),
    HelperStep("createCube", "default", Names.cube, ""),
    Checked(DefineStep("default", "valid", Names.distantLight, "DistantLight", "light"),
            "Error creating distant light, exiting"),
    SaveStep, ReturnStep >>

\* the mutant saves the stage before it creates the mesh
createMeshMain_saveFirst == <<
    PrintStep(MsgStagePath), OpenStep, SaveStep, MeshStep(Names.cubeMesh, "meshPrim"), ReturnStep >>

createMeshMain == <<
    PrintStep(MsgStagePath), OpenStep, MeshStep(Names.cubeMesh, "meshPrim"), SaveStep, ReturnStep >>

createMaterialsMain == <<
    PrintStep(MsgStagePath), OpenStep,
    DefineStep("default", "asis", Names.Looks, "Scope", "scopePrim"),
    ReserveStep("scopePrim", <<Names.cubePbr, Names.sphereUvwPbr, Names.previewSurfacePbr>>, "validMaterialNames"),
    TextureStep("Fieldstone/Fieldstone_BaseColor.png", "colorTex"),
    TextureStep("Fieldstone/Fieldstone_N.png", "normalTex"),
    TextureStep("Fieldstone/Fieldstone_ORM.png", "ormTex"),
    MeshStep(Names.pbrMesh, "meshPrim"),
    Checked(DefineReserved("scopePrim", "validMaterialNames", 1, "Material", "matPrim"),
            "Error creating mesh cube material, exiting"),
    CallStep("addTexturesToPbrMaterial, bindMaterial"),
    DefineStep("default", "unique", Names.pbrSphere, "Sphere", "sphere"),
    CallStep("Set radius, setOmniverseRefinement, setExtents, setLocalTransform"),
    Checked(DefineReserved("scopePrim", "validMaterialNames", 2, "Material", "worldUvMatPrim"),
            "Error creating sphere material, exiting"),
    CallStep("addTexturesToPbrMaterial, bindMaterial, createMdlShaderInput"),
    MeshStep(Names.previewSurfaceMesh, "meshPrim"),
    Checked(DefineReserved("scopePrim", "validMaterialNames", 3, "Material", "matPrim"),
            "Error creating USD Preview Surface material, exiting"),
    CallStep("addTexturesToPreviewMaterial, bindMaterial"),
    SaveStep, ReturnStep >>

createLightsMain == <<
    PrintStep(MsgStagePath), OpenStep,
    DefineStep("default", "unique", Names.rectLight, "RectLight", "rectLightPrim"),
    CallStep("setLocalTransform, CreateColorAttr"),
    TextureStep("kloofendal_48d_partly_cloudy.hdr", "texturePath"),
    DefineStep("default", "unique", Names.domeLight, "DomeLight", "domeLightPrim"),
    SaveStep, ReturnStep >>

createCamerasMain == <<
    PrintStep(MsgStagePath), OpenStep,
    ReserveStep("default", <<Names.telephotoCamera, Names.wideCamera>>, "validTokens"),
    DefineReserved("default", "validTokens", 1, "Camera", "telephotoCamera"),
    CallStep("setLocalTransform"),
    DefineReserved("default", "validTokens", 2, "Camera", "wideCamera"),
    CallStep("setLocalTransform"),
    SaveStep, ReturnStep >>

createTransformsMain == <<
    PrintStep(MsgStagePath), OpenStep,
    Step("findXformable", "default", "unique", Names.cube, "", 0, "createCube", "xformable", FALSE, ""),
    PrintStep("Rotating xformable"),
    CallStep("getLocalTransformComponents, setLocalTransform"),
    DefineStep("default", "unique", Names.groundXform, "Xform", "xformPrim"),
    HelperStep("createCube", "xformPrim", Names.groundCube, "cube"),
    CallStep("setLocalTransform"),
    HelperStep("createCube", "default", Names.quatCube, "quatCube"),
    CallStep("setLocalTransform"),
    SaveStep, ReturnStep >>

setDisplayNamesMain == <<
    PrintStep(MsgStagePath), OpenStep,
    DefineStep("default", "unique", Names.rocket, "Xform", "xformPrim"),
    HelperStep("createCylinder", "xformPrim", Names.tube, "cylinder"),
    CallStep("setLocalTransform"),
    HelperStep("createCone", "xformPrim", Names.nose, "cone"),
    CallStep("setLocalTransform"),
    HelperStep("createCube", "xformPrim", Names.fin, "fin1"),
    CallStep("setLocalTransform"),
    HelperStep("createCube", "xformPrim", Names.fin, "fin2"),
    CallStep("setLocalTransform"),
    DisplayNameStep("xformPrim", <<"*">>),
    DisplayNameStep("cylinder", <<"*", " ">> \o Names.tube),
    DisplayNameStep("cone", <<"*", " ">> \o Names.nose),
    DisplayNameStep("fin1", <<"*", " ">> \o Names.fin),
    DisplayNameStep("fin2", <<"*", " ">> \o Names.fin),
    PrintStep("Xform prim display name status"),
    SaveStep, ReturnStep >>

setSemanticsMain == <<
    CallStep("activateDiagnosticsDelegate"),
    PrintStep(MsgStagePath), OpenStep,
    DefineStep("default", "unique", Names.house, "Xform", "xformPrim"),
    HelperStep("createCube", "xformPrim", Names.wall, "wall"),
    CallStep("setLocalTransform"),
    HelperStep("createCube", "xformPrim", Names.roof, "roof"),
    CallStep("setLocalTransform"),
    HelperStep("createCube", "xformPrim", Names.door, "door"),
    CallStep("setLocalTransform"),
    HelperStep("createCube", "xformPrim", Names.window, "window"),
    CallStep("setLocalTransform"),
    PrintStep("Created house prim"),
    CallStep("SetDocumentation, setQCode"),
    PrintStep("semantics"),
    SaveStep, ReturnStep >>

createReferencesMain == <<
    PrintStep(MsgStagePath), OpenStep,
    Step("component", "", "", Names.Cube_2x2x2, "", 0, "", "", TRUE, "Error creating component stage, exiting"),
    PrintStep("Component stage"),
    DefineStep("default", "unique", Names.referencePrim, "Xform", "xform"),
    CallStep("AddReference, setLocalTransform"),
    DefineStep("default", "unique", Names.payloadPrim, "Xform", "xform"),
    CallStep("AddPayload, setPrimvar"),
    SaveStep, ReturnStep >>

createAssetMain == <<
    PrintStep(MsgStagePath), OpenStep,
    CallStep("SetKind"),
    Step("asset", "", "", Names.FlowerPlanter, "", 0, "", "", TRUE, "Error creating asset stage, exiting"),
    PrintStep("Asset stage"),
    DefineStep("default", "asis", Names.FlowerPlanter, "Xform", "prim"),
    CallStep("setLocalTransform"),
    SaveStep, ReturnStep >>

\* the joint paths of createSkelMesh, each a sequence of joint names
jointTokens == << <<"Shoulder">>, <<"Shoulder", "Elbow">>, <<"Shoulder", "Elbow", "Wrist">> >>

\* the mutant sets the joints and transforms before it validates the topology
createSkeletonMain_validateLate == <<
    PrintStep(MsgStagePath), OpenStep,
    DefineStep("default", "unique", Names.skelRootGroup, "SkelRoot", "skelRoot"),
    CallStep("setLocalTransform"),
    ReserveStep("skelRoot", <<Names.skel, Names.anim, Names.skinnedMesh>>, "skelChildPrimNames"),
    DefineReserved("skelRoot", "skelChildPrimNames", 1, "Skeleton", "skeleton"),
    CallStep("Set joints, bindTransforms, restTransforms"),
    Step("validate", "", "", <<>>, "", 0, "", "", TRUE, "Error creating skeletal mesh group, exiting"),
    DefineReserved("skelRoot", "skelChildPrimNames", 2, "SkelAnimation", "animPrim"),
    CallStep("animation samples, SetTimeCodesPerSecond, SetStartTimeCode, SetEndTimeCode"),
    DefineReserved("skelRoot", "skelChildPrimNames", 3, "Mesh", "mesh"),
    CallStep("SkelBindingAPI, extents"),
    SaveStep, ReturnStep >>

createSkeletonMain == <<
    PrintStep(MsgStagePath), OpenStep,
    DefineStep("default", "unique", Names.skelRootGroup, "SkelRoot", "skelRoot"),
    CallStep("setLocalTransform"),
    ReserveStep("skelRoot", <<Names.skel, Names.anim, Names.skinnedMesh>>, "skelChildPrimNames"),
    DefineReserved("skelRoot", "skelChildPrimNames", 1, "Skeleton", "skeleton"),
    Step("validate", "", "", <<>>, "", 0, "", "", TRUE, "Error creating skeletal mesh group, exiting"),
    CallStep("Set joints, bindTransforms, restTransforms"),
    DefineReserved("skelRoot", "skelChildPrimNames", 2, "SkelAnimation", "animPrim"),
    CallStep("animation samples, SetTimeCodesPerSecond, SetStartTimeCode, SetEndTimeCode"),
    DefineReserved("skelRoot", "skelChildPrimNames", 3, "Mesh", "mesh"),
    CallStep("SkelBindingAPI, extents"),
    SaveStep, ReturnStep >>

createPhysicsMain == <<
    PrintStep(MsgStagePath), OpenStep,
    Step("physicsScene", "default", "unique", Names.PhysicsScene, "", 0, "PhysicsScene", "", FALSE, ""),
    Step("ground", "default", "unique", Names.ground, "", 0, "Plane", "", TRUE, "Error creating ground, exiting"),
    DefineStep("default", "unique", Names.SimpleRigidBodies, "Xform", "simpleXform"),
    DefineStep("default", "unique", Names.SimpleFixedJoints, "Xform", "baseXform"),
    DefineStep("default", "unique", Names.SimpleRevoluteJoints, "Xform", "baseXform"),
    DefineStep("default", "unique", Names.SimplePrismaticJoints, "Xform", "baseXform"),
    DefineStep("default", "unique", Names.SimpleSphericalJoints, "Xform", "baseXform"),
    DefineStep("default", "unique", Names.physicsMaterials, "Xform", "baseXform"),
    SaveStep, ReturnStep >>

AuthoringSamples == {"createStage", "createMesh", "createMaterials", "createLights", "createCameras",
                     "createTransforms", "setDisplayNames", "setSemantics", "createReferences",
                     "createAsset", "createSkeleton", "createPhysics"}

Samples == AuthoringSamples \cup {"usdTraverse"}

Main(prog) ==
    CASE prog = "createStage"      -> createStageMain
      [] prog = "createMesh"       -> createMeshMain
      [] prog = "createMaterials"  -> createMaterialsMain
      [] prog = "createLights"     -> createLightsMain
      [] prog = "createCameras"    -> createCamerasMain
      [] prog = "createTransforms" -> createTransformsMain
      [] prog = "setDisplayNames"  -> setDisplayNamesMain
      [] prog = "setSemantics"     -> setSemanticsMain
      [] prog = "createReferences" -> createReferencesMain
      [] prog = "createAsset"      -> createAssetMain
      [] prog = "createSkeleton"   -> createSkeletonMain
      [] prog = "createPhysics"    -> createPhysicsMain

----------------------------------------------------------------------------
(* The state of a run                                                      *)

Running == [how |-> "running", code |-> 0]
Returned(code) == [how |-> "return", code |-> code]
Exited(code) == [how |-> "exit", code |-> code]

NoLocals == [h \in {} |-> <<>>]
NoFiles == [p \in {} |-> NoStage]

\* an entry of the trace: an SDK or file-system operation and whether it
\* succeeded; arg is what the formulas read of its arguments or result
Entry(op, ok, arg) == [op |-> op, ok |-> ok, arg |-> arg]

\* the current statement of main
AtStep(op) ==
    /\ status = Running
    /\ argv.prog \in AuthoringSamples
    /\ pc \in 1..Len(Main(argv.prog))
    /\ Main(argv.prog)[pc].op = op

Cur == Main(argv.prog)[pc]

\* the path of the prim a step names as its parent
ParentPath(step) == IF step.parent = "default" THEN DefaultPrimPath(stage) ELSE locals[step.parent]

\* the mutant prints and goes on with the next statement
Fail_continue(msg) ==
    /\ out' = Append(out, msg)
    /\ status' = status
    /\ pc' = pc + 1

\* the mutant returns -1 without a word
Fail_silent(msg) ==
    /\ out' = out
    /\ status' = Returned(-1)
    /\ pc' = pc

\* std::cout << msg; return -1;
Fail(msg) ==
    /\ out' = Append(out, msg)
    /\ status' = Returned(-1)
    /\ pc' = pc

Bind(as, value) == IF as = "" THEN locals ELSE (as :> value) @@ locals

----------------------------------------------------------------------------
(* Opening and creating stages                                             *)

\* the mutant never finds a layer
LayerFound_never(files, identifier) == FALSE

\* pxr::SdfLayer::FindOrOpen(identifier) returns a layer
LayerFound(files, identifier) == identifier \in DOMAIN files

\* usdex::core::createStage can succeed only for a format it can write
CanCreate(identifier, fileFormatArgs) == FormatOf(identifier, fileFormatArgs) # "unsupported"

\* the arguments a sample passes to usdex::core::createStage
CreateArgs(identifier, defaultPrimName, fileFormatArgs) ==
    [identifier |-> identifier, defaultPrimName |-> defaultPrimName, upAxis |-> "fallback",
     linearUnits |-> "centimeters", authoringMetadata |-> getSamplesAuthoringMetadata,
     fileFormatArgs |-> fileFormatArgs]

\* the stage usdex::core::createStage makes of its arguments
CreatedStage(a) ==
    NewStage(a.identifier, a.defaultPrimName, a.upAxis, a.linearUnits, a.authoringMetadata, a.fileFormatArgs)

\* samples::openOrCreateStage; ok: the call it ends with (createStage or
\* UsdStage::Open) returns a stage.  The result: the stage returned, the
\* files on disk afterwards and the operations performed
openOrCreateStage(files, identifier, defaultPrimName, fileFormatArgs, ok) ==
    IF ~LayerFound(files, identifier)
    THEN LET a == CreateArgs(identifier, defaultPrimName, fileFormatArgs)
         IN  [stage |-> IF ok THEN CreatedStage(a) ELSE NoStage,
              files |-> IF ok THEN (identifier :> CreatedStage(a)) @@ files ELSE files,
              trace |-> <<Entry("FindOrOpen", TRUE, FALSE), Entry("createStage", ok, a)>>]
    ELSE [stage |-> IF ok THEN files[identifier] ELSE NoStage,
          files |-> files,
          trace |-> <<Entry("FindOrOpen", TRUE, TRUE), Entry("Open", ok, identifier)>>]

\* the outcomes the last call of openOrCreateStage can have
OpenOutcomes(files, identifier, fileFormatArgs) ==
    IF LayerFound(files, identifier) \/ CanCreate(identifier, fileFormatArgs) THEN BOOLEAN ELSE {FALSE}

----------------------------------------------------------------------------
(* Actions: the steps of a run                                             *)

\* main calls samples::parseCommonOptions first (every sample but usdTraverse)
ParseCommonOptions ==
    /\ status = Running
    /\ argv.prog \in AuthoringSamples
    /\ pc = 0
    /\ LET r == parseCommonOptions(argv)
       IN  /\ out' = out \o r.out
           /\ args' = r.args
           /\ status' = IF r.how = "exit" THEN Exited(r.code) ELSE Running
           /\ pc' = IF r.how = "exit" THEN 0 ELSE 1
    /\ UNCHANGED <<argv, trace, stage, locals, disk, start, runs>>

\* std::cout << "..." << std::endl
Cout ==
    /\ AtStep("print")
    /\ out' = Append(out, Cur.msg)
    /\ pc' = pc + 1
    /\ UNCHANGED <<argv, args, status, trace, stage, locals, disk, start, runs>>

\* stage = samples::openOrCreateStage(...); if (!stage) { print; return -1; }
OpenOrCreateStage ==
    /\ AtStep("open")
    /\ \E ok \in OpenOutcomes(disk, args.stagePath, args.fileFormatArgs) :
         LET r == openOrCreateStage(disk, args.stagePath, Cur.name, args.fileFormatArgs, ok)
         IN  /\ stage' = r.stage
             /\ disk' = r.files
             /\ trace' = trace \o r.trace
             /\ IF ok THEN /\ pc' = pc + 1
                           /\ UNCHANGED <<out, status>>
                ELSE Fail(Cur.msg)
    /\ UNCHANGED <<argv, args, locals, start, runs>>

\* createStage.cpp: stage = usdex::core::createStage(...); if (!stage) ...
CreateStage ==
    /\ AtStep("create")
    /\ \E ok \in (IF CanCreate(args.stagePath, args.fileFormatArgs) THEN BOOLEAN ELSE {FALSE}) :
         LET a == CreateArgs(args.stagePath, Cur.name, args.fileFormatArgs)
         IN  /\ trace' = Append(trace, Entry("createStage", ok, a))
             /\ IF ok THEN /\ stage' = CreatedStage(a)
                           /\ disk' = (args.stagePath :> CreatedStage(a)) @@ disk
                           /\ pc' = pc + 1
                           /\ UNCHANGED <<out, status>>
                ELSE /\ Fail(Cur.msg)
                     /\ UNCHANGED <<stage, disk>>
    /\ UNCHANGED <<argv, args, locals, start, runs>>

\* the name a defining step gives its prim
StepName(step) ==
    CASE step.naming = "unique"   -> getValidChildName(stage, ParentPath(step), step.name)
      [] step.naming = "valid"    -> getValidPrimName(step.name)
      [] step.naming = "asis"     -> step.name
      [] step.naming = "reserved" -> locals[step.from][step.idx]

\* prim = <Schema>::Define(stage, path) or usdex::core::define<Schema>(...),
\* followed by `if (!prim) { print; return -1; }` where main tests it
Define ==
    /\ AtStep("define")
    /\ \E ok \in (IF Cur.checked THEN BOOLEAN ELSE {TRUE}) :
         LET path == ParentPath(Cur) \o <<StepName(Cur)>>
         IN  /\ trace' = Append(trace, Entry("define", ok, path))
             /\ IF ok THEN /\ stage' = DefinePrim(stage, path, Cur.type)
                           /\ locals' = Bind(Cur.as, path)
                           /\ pc' = pc + 1
                           /\ UNCHANGED <<out, status>>
                ELSE /\ Fail(Cur.msg)
                     /\ UNCHANGED <<stage, locals>>
    /\ UNCHANGED <<argv, args, disk, start, runs>>

\* samples::createCube, createCone, createSphere, createCylinder, createCapsule
CallHelper ==
    /\ AtStep("helper")
    /\ trace' = Append(trace, Entry("define", TRUE, HelperPath(stage, ParentPath(Cur), Cur.name)))
    /\ stage' = Helper(Cur.type, stage, ParentPath(Cur), Cur.name)
    /\ locals' = Bind(Cur.as, HelperPath(stage, ParentPath(Cur), Cur.name))
    /\ pc' = pc + 1
    /\ UNCHANGED <<argv, args, status, out, disk, start, runs>>

\* meshPrim = samples::createCubeMesh(...); if (!meshPrim) { print; return -1; }
CallCubeMesh ==
    /\ AtStep("mesh")
    /\ \E ok \in BOOLEAN :
         LET path == HelperPath(stage, ParentPath(Cur), Cur.name)
         IN  /\ trace' = Append(trace, Entry("define", ok, path))
             /\ stage' = createCubeMesh(stage, ParentPath(Cur), Cur.name, ok)
             /\ IF ok THEN /\ out' = out \o createCubeMeshOut(stage, ParentPath(Cur), Cur.name)
                           /\ locals' = Bind(Cur.as, path)
                           /\ pc' = pc + 1
                           /\ UNCHANGED status
                ELSE /\ out' = out \o createCubeMeshOut(stage, ParentPath(Cur), Cur.name) \o <<Cur.msg>>
                     /\ status' = Returned(-1)
                     /\ UNCHANGED <<pc, locals>>
    /\ UNCHANGED <<argv, args, disk, start, runs>>

\* names = usdex::core::getValidChildNames(parent, { ... })
ReserveNames ==
    /\ AtStep("reserve")
    /\ locals' = Bind(Cur.as, getValidChildNames(stage, ParentPath(Cur), Cur.name))
    /\ trace' = Append(trace, Entry("getValidChildNames", TRUE, Cur.as))
    /\ pc' = pc + 1
    /\ UNCHANGED <<argv, args, status, out, stage, disk, start, runs>>

\* SDK calls that define no prim and whose results main does not test
Call ==
    /\ AtStep("call")
    /\ trace' = Append(trace, Entry("call", TRUE, Cur.type))
    /\ pc' = pc + 1
    /\ UNCHANGED <<argv, args, status, out, stage, locals, disk, start, runs>>

\* usdex::core::setDisplayName(prim, "...")
SetDisplayName ==
    /\ AtStep("displayName")
    /\ stage' = setDisplayName(stage, ParentPath(Cur), Cur.name)
    /\ trace' = Append(trace, Entry("call", TRUE, "setDisplayName"))
    /\ pc' = pc + 1
    /\ UNCHANGED <<argv, args, status, out, locals, disk, start, runs>>

----------------------------------------------------------------------------
(* sysUtils.h: copyTextureToStagePath                                      *)

MsgMkdir == "Error creating directories"
MsgCopy  == "Error copying file"

\* pxr::TfGetPathName: the directory of the path, with its separator
TfGetPathName(p) == SubSeq(p, 1, LastIndexOf(p, "/"))

\* the mutant returns the empty string when the copy has failed
copyTextureToStagePath_failEmpty(stagePath, textureFile, mkdirOk, copyOk) ==
    [ret    |-> IF copyOk THEN <<".", "textures", textureFile>> ELSE <<>>,
     target |-> <<TfGetPathName(stagePath), "textures", textureFile>>,
     out    |-> (IF mkdirOk THEN <<>> ELSE <<MsgMkdir>>) \o (IF copyOk THEN <<>> ELSE <<MsgCopy>>),
     trace  |-> <<Entry("create_directories", mkdirOk, textureFile), Entry("copy", copyOk, textureFile)>>]

\* copyTextureToStagePath(stagePath, textureFile); mkdirOk, copyOk: whether
\* std::filesystem::create_directories and std::filesystem::copy left the
\* error code clear.  ret is the string returned, target where the texture is
\* copied to (each as its path components)
copyTextureToStagePath(stagePath, textureFile, mkdirOk, copyOk) ==
    [ret    |-> <<".", "textures", textureFile>>,
     target |-> IF TfGetPathName(stagePath) = <<>> THEN <<"", "textures", textureFile>>
                ELSE <<TfGetPathName(stagePath), "textures", textureFile>>,
     out    |-> (IF mkdirOk THEN <<>> ELSE <<MsgMkdir>>) \o (IF copyOk THEN <<>> ELSE <<MsgCopy>>),
     trace  |-> <<Entry("create_directories", mkdirOk, textureFile), Entry("copy", copyOk, textureFile)>>]

CopyTexture ==
    /\ AtStep("texture")
    /\ \E mkdirOk \in BOOLEAN, copyOk \in BOOLEAN :
         LET r == copyTextureToStagePath(args.stagePath, Cur.type, mkdirOk, copyOk)
         IN  /\ out' = out \o r.out
             /\ trace' = trace \o r.trace
             /\ locals' = Bind(Cur.as, r.ret)
    /\ pc' = pc + 1
    /\ UNCHANGED <<argv, args, status, stage, disk, start, runs>>

----------------------------------------------------------------------------
(* createTransforms.cpp                                                    *)

\* the types that are pxr::UsdGeomXformable
XformableTypes == {"Xform", "Cube", "Cone", "Sphere", "Cylinder", "Capsule", "Mesh", "Plane", "Camera",
                   "RectLight", "DomeLight", "DistantLight", "SkelRoot", "Skeleton"}

\* findXformable(stage) returns a valid prim
HasXformable(st) == \E i \in 1..Len(st.prims) : st.prims[i].type \in XformableTypes

\* xformable = findXformable(stage); if (!xformable) xformable = createCube(...)
\* (which of several xformable prims is found is not read by the model)
FindXformable ==
    /\ AtStep("findXformable")
    /\ IF HasXformable(stage)
       THEN /\ locals' = Bind(Cur.as, stage.prims[CHOOSE i \in 1..Len(stage.prims) :
                                                     stage.prims[i].type \in XformableTypes].path)
            /\ UNCHANGED <<stage, trace>>
       ELSE /\ stage' = createCube(stage, ParentPath(Cur), Cur.name)
            /\ locals' = Bind(Cur.as, HelperPath(stage, ParentPath(Cur), Cur.name))
            /\ trace' = Append(trace, Entry("define", TRUE, HelperPath(stage, ParentPath(Cur), Cur.name)))
    /\ pc' = pc + 1
    /\ UNCHANGED <<argv, args, status, out, disk, start, runs>>

----------------------------------------------------------------------------
(* createPhysics.cpp                                                       *)

HasType(st, type) == \E i \in PrimRange(st, DefaultPrimPath(st)) : st.prims[i].type = type

\* createPhysicsScene(stage)
createPhysicsScene(st) ==
    IF HasType(st, "PhysicsScene") THEN st
    ELSE DefinePrim(st, DefaultPrimPath(st) \o <<getValidChildName(st, DefaultPrimPath(st), Names.PhysicsScene)>>,
                    "PhysicsScene")

\* createGroundWithCollision(stage); ok: UsdGeomPlane::Define returns a plane
createGroundWithCollision(st, ok) ==
    LET path == DefaultPrimPath(st) \o <<getValidChildName(st, DefaultPrimPath(st), Names.ground)>>
    IN  IF HasType(st, "Plane") THEN [ret |-> TRUE, stage |-> st, trace |-> <<>>]
        ELSE IF ~ok THEN [ret |-> FALSE, stage |-> st, trace |-> <<Entry("define", FALSE, path)>>]
        ELSE [ret |-> TRUE,
              stage |-> ApplyAPI(DefinePrim(st, path, "Plane"), path, "PhysicsCollisionAPI"),
              trace |-> <<Entry("define", TRUE, path),
                          Entry("call", TRUE, "Set axis, CollisionAPI::Apply, setLocalTransform")>>]

CreatePhysicsScene ==
    /\ AtStep("physicsScene")
    /\ stage' = createPhysicsScene(stage)
    /\ trace' = IF HasType(stage, "PhysicsScene") THEN trace
                ELSE Append(trace, Entry("define", TRUE, <<>>))
    /\ pc' = pc + 1
    /\ UNCHANGED <<argv, args, status, out, locals, disk, start, runs>>

\* if (!createGroundWithCollision(stage)) { print; return -1; }
CreateGroundWithCollision ==
    /\ AtStep("ground")
    /\ \E ok \in (IF HasType(stage, "Plane") THEN {TRUE} ELSE BOOLEAN) :
         LET r == createGroundWithCollision(stage, ok)
         IN  /\ stage' = r.stage
             /\ trace' = trace \o r.trace
             /\ IF r.ret THEN /\ pc' = pc + 1
                              /\ UNCHANGED <<out, status>>
                ELSE Fail(Cur.msg)
    /\ UNCHANGED <<argv, args, locals, disk, start, runs>>

----------------------------------------------------------------------------
(* createSkeleton.cpp                                                      *)

\* pxr::UsdSkelTopology(jointTokens).Validate: every joint that is not a
\* root joint has its parent path earlier in the list
IsValidTopology(joints) ==
    \A i \in 1..Len(joints) :
        \/ Len(joints[i]) = 1
        \/ \E j \in 1..(i - 1) : joints[j] = SubSeq(joints[i], 1, Len(joints[i]) - 1)

MsgTopology == "Invalid skeleton topology"

\* createSkelMesh: if (!topo.Validate(&reason)) { print; return UsdSkelRoot(); }
\* and main: if (!skelRoot) { print; return -1; }
\* ok: topo.Validate returns true, which it can for a valid topology only
ValidateTopology ==
    /\ AtStep("validate")
    /\ \E ok \in (IF IsValidTopology(jointTokens) THEN BOOLEAN ELSE {FALSE}) :
         /\ trace' = Append(trace, Entry("Validate", ok, <<>>))
         /\ IF ok
            THEN /\ pc' = pc + 1
                 /\ UNCHANGED <<out, status>>
            ELSE /\ out' = out \o <<MsgTopology, Cur.msg>>
                 /\ status' = Returned(-1)
                 /\ pc' = pc
    /\ UNCHANGED <<argv, args, stage, locals, disk, start, runs>>

----------------------------------------------------------------------------
(* createReferences.cpp: createComponentStage                              *)

\* the path of the component stage: next to the root stage, same extension
ComponentStagePath(stagePath) ==
    IF parent_path(stagePath) = <<>> THEN Names.Cube_2x2x2 \o extension(stagePath)
    ELSE parent_path(stagePath) \o <<"/">> \o Names.Cube_2x2x2 \o extension(stagePath)

\* the names of the 8 cubes in the order of the loops
ComponentCubes ==
    << CubeName(0,0,0), CubeName(0,0,1), CubeName(0,1,0), CubeName(0,1,1),
       CubeName(1,0,0), CubeName(1,0,1), CubeName(1,1,0), CubeName(1,1,1) >>

\* the calls samples::createCubeMesh(componentStage->GetDefaultPrim(), cubeName, ...)
\* of the loops; oks[i]: the i-th call defines its mesh
RECURSIVE createCubeMeshes(_, _, _)
createCubeMeshes(st, names, oks) ==
    IF names = <<>> THEN st
    ELSE createCubeMeshes(createCubeMesh(st, DefaultPrimPath(st), Head(names), Head(oks)), Tail(names), Tail(oks))

ComponentOutcomes == {"ok", "noStage", "meshFailed", "exportFailed"}

\* createComponentStage(args).  outcome: "noStage" UsdStage::CreateInMemory
\* returns null, "meshFailed" the first createCubeMesh defines no mesh (the
\* function does not look at the result), "exportFailed" exportLayer returns
\* false.  ret is the string returned ("" is the empty sequence)
createComponentStage(files, a, outcome) ==
    LET path  == ComponentStagePath(a.stagePath)
        mem   == DefinePrim(NewStage(path, Names.Cube_2x2x2, "fallback", "centimeters",
                                     getSamplesAuthoringMetadata, a.fileFormatArgs),
                            <<Names.Cube_2x2x2>>, "Xform")
        oks   == [i \in 1..8 |-> ~(outcome = "meshFailed" /\ i = 1)]
        layer == [createCubeMeshes(mem, ComponentCubes, oks) EXCEPT !.comment = "Cube_2x2x2 component"]
    IN  IF outcome = "noStage"
        THEN [ret |-> <<>>, files |-> files, trace |-> <<Entry("CreateInMemory", FALSE, path)>>]
        ELSE [ret   |-> IF outcome = "exportFailed" THEN <<>> ELSE path,
              files |-> IF outcome = "exportFailed" THEN files ELSE (path :> layer) @@ files,
              trace |-> <<Entry("CreateInMemory", TRUE, path),
                          Entry("define", TRUE, <<Names.Cube_2x2x2>>),
                          Entry("define", oks[1], <<Names.Cube_2x2x2, ComponentCubes[1]>>),
                          Entry("call", TRUE, "createCubeMesh, 7 times"),
                          Entry("exportLayer", outcome # "exportFailed", path)>>]

\* componentStagePath = createComponentStage(args);
\* if (componentStagePath.empty()) { print; return -1; }
CreateComponentStage ==
    /\ AtStep("component")
    /\ \E outcome \in ComponentOutcomes :
         LET r == createComponentStage(disk, args, outcome)
         IN  /\ disk' = r.files
             /\ trace' = trace \o r.trace
             /\ IF r.ret # <<>> THEN /\ pc' = pc + 1
                                     /\ UNCHANGED <<out, status>>
                ELSE Fail(Cur.msg)
    /\ UNCHANGED <<argv, args, stage, locals, start, runs>>

----------------------------------------------------------------------------
(* createAsset.cpp: createAsset                                            *)

\* stageDir / componentStageName
AssetStagePath(stagePath) ==
    IF parent_path(stagePath) = <<>> THEN FlowerPlanterFile
    ELSE parent_path(stagePath) \o <<"/">> \o FlowerPlanterFile

AssetOutcomes == {"ok", "noStage", "noPayload"}

\* createAsset(args).  outcome: "noStage" usdex::core::createStage returns
\* null, "noPayload" usdex::core::createAssetPayload returns null.  Of the
\* files of the asset the model keeps the asset stage
createAsset(files, a, outcome) ==
    LET path  == AssetStagePath(a.stagePath)
        asset == DefinePrim(NewStage(path, Names.FlowerPlanter, "fallback", "centimeters",
                                     getSamplesAuthoringMetadata, {}),
                            <<Names.FlowerPlanter>>, "Xform")
    IN  IF outcome = "noStage"
        THEN [ret |-> NoStage, files |-> files,
              trace |-> <<Entry("createStage", FALSE, CreateArgs(path, Names.FlowerPlanter, {}))>>]
        ELSE IF outcome = "noPayload"
        THEN [ret |-> NoStage, files |-> (path :> asset) @@ files,
              trace |-> <<Entry("createStage", TRUE, CreateArgs(path, Names.FlowerPlanter, {})),
                          Entry("define", TRUE, <<Names.FlowerPlanter>>),
                          Entry("createAssetPayload", FALSE, path)>>]
        ELSE [ret |-> asset, files |-> (path :> asset) @@ files,
              trace |-> <<Entry("createStage", TRUE, CreateArgs(path, Names.FlowerPlanter, {})),
                          Entry("define", TRUE, <<Names.FlowerPlanter>>),
                          Entry("createAssetPayload", TRUE, path),
                          Entry("call", TRUE, "libraries, contents, addAssetInterface")>>]

\* assetStage = createAsset(args); if (!assetStage) { print; return -1; }
CreateAsset ==
    /\ AtStep("asset")
    /\ \E outcome \in AssetOutcomes :
         LET r == createAsset(disk, args, outcome)
         IN  /\ disk' = r.files
             /\ trace' = trace \o r.trace
             /\ IF r.ret.valid THEN /\ pc' = pc + 1
                                    /\ UNCHANGED <<out, status>>
                ELSE Fail(Cur.msg)
    /\ UNCHANGED <<argv, args, stage, locals, start, runs>>

----------------------------------------------------------------------------
(* The end of main                                                         *)

\* usdex::core::saveStage(stage, comment): the root layer is written with
\* the comment
saveStage(files, st, comment) == (st.identifier :> [st EXCEPT !.comment = comment]) @@ files

SaveStage ==
    /\ AtStep("save")
    /\ disk' = saveStage(disk, stage, "OpenUSD Exchange Samples")
    /\ trace' = Append(trace, Entry("saveStage", TRUE, stage.identifier))
    /\ pc' = pc + 1
    /\ UNCHANGED <<argv, args, status, out, stage, locals, start, runs>>

\* return 0;
Return ==
    /\ AtStep("return")
    /\ status' = Returned(0)
    /\ UNCHANGED <<argv, args, pc, out, trace, stage, locals, disk, start, runs>>

----------------------------------------------------------------------------
(* UsdTraverse.cpp                                                         *)

MsgUsage       == "Please provide a local file path to a USD stage to read."
MsgTraversal   == "OpenUSD Stage Traversal"
MsgOpenFailure == "Failure to open stage.  Exiting."

\* argc of a usdTraverse command line: the program, the path when there is
\* one, one more argument when `bad`
Argc(a) == 1 + (IF a.hasPath THEN 1 ELSE 0) + (IF a.bad THEN 1 ELSE 0)

\* main of usdTraverse; ok: pxr::UsdStage::Open(argv[1]) returns a stage
usdTraverseMain(files, a, ok) ==
    IF Argc(a) # 2 THEN [status |-> Returned(-1), out |-> <<MsgUsage>>, trace |-> <<>>]
    ELSE IF ~ok THEN [status |-> Returned(-2), out |-> <<MsgTraversal, MsgOpenFailure>>,
                      trace |-> <<Entry("Open", FALSE, a.path)>>]
    ELSE [status |-> Returned(0),
          out    |-> <<MsgTraversal, "Stage up-axis", "Meters per unit">>
                     \o [i \in 1..Len(files[a.path].prims) |-> "prim"],
          trace  |-> <<Entry("Open", TRUE, a.path)>>]

UsdTraverse ==
    /\ status = Running
    /\ argv.prog = "usdTraverse"
    /\ \E ok \in (IF Argc(argv) = 2 /\ argv.path \in DOMAIN disk THEN BOOLEAN ELSE {FALSE}) :
         LET r == usdTraverseMain(disk, argv, ok)
         IN  /\ status' = r.status
             /\ out' = out \o r.out
             /\ trace' = trace \o r.trace
    /\ UNCHANGED <<argv, args, pc, stage, locals, disk, start, runs>>

----------------------------------------------------------------------------
(* Runs of the samples, one after the other on the same disk               *)

\* the number of runs in a behaviour
MaxRuns == 2

Argv(prog, usda, help, bad, hasPath, path) ==
    [prog |-> prog, usda |-> usda, help |-> help, bad |-> bad, hasPath |-> hasPath, path |-> path]

P_s_usd  == <<"s">> \o Ext_usd
P_s_usdc == <<"s">> \o Ext_usdc

\* the command lines of the runs: no option, --path s.usd, --usda --path
\* s.usd, --usda --path s.usdc, --help, an unknown option; for usdTraverse
\* no argument, a path, a path and one more argument
ArgvRuns ==
    {Argv(prog, FALSE, FALSE, FALSE, FALSE, <<>>) : prog \in Samples}
    \cup {Argv(prog, usda, FALSE, FALSE, TRUE, P_s_usd) : prog \in AuthoringSamples, usda \in BOOLEAN}
    \cup {Argv(prog, TRUE, FALSE, FALSE, TRUE, P_s_usdc) : prog \in AuthoringSamples}
    \cup {Argv(prog, FALSE, TRUE, FALSE, FALSE, <<>>) : prog \in AuthoringSamples}
    \cup {Argv(prog, FALSE, FALSE, TRUE, FALSE, <<>>) : prog \in AuthoringSamples}
    \cup {Argv("usdTraverse", FALSE, FALSE, bad, TRUE, P_s_usd) : bad \in BOOLEAN}

\* the state a process starts in
StartRun(a) ==
    /\ argv = a
    /\ args = NoArgs
    /\ pc = 0
    /\ status = Running
    /\ out = <<>>
    /\ trace = <<>>
    /\ stage = NoStage
    /\ locals = NoLocals

Init ==
    /\ \E a \in ArgvRuns : StartRun(a)
    /\ disk = NoFiles
    /\ start = NoFiles
    /\ runs = 1

\* the next sample is started once the one before has terminated
NextRun ==
    /\ status # Running
    /\ runs < MaxRuns
    /\ \E a \in ArgvRuns : argv' = a
    /\ args' = NoArgs
    /\ pc' = 0
    /\ status' = Running
    /\ out' = <<>>
    /\ trace' = <<>>
    /\ stage' = NoStage
    /\ locals' = NoLocals
    /\ start' = disk
    /\ runs' = runs + 1
    /\ UNCHANGED disk

Next ==
    \/ ParseCommonOptions
    \/ Cout
    \/ OpenOrCreateStage
    \/ CreateStage
    \/ Define
    \/ CallHelper
    \/ CallCubeMesh
    \/ ReserveNames
    \/ Call
    \/ SetDisplayName
    \/ CopyTexture
    \/ FindXformable
    \/ CreatePhysicsScene
    \/ CreateGroundWithCollision
    \/ ValidateTopology
    \/ CreateComponentStage
    \/ CreateAsset
    \/ SaveStage
    \/ Return
    \/ UsdTraverse
    \/ NextRun

Spec == Init /\ [][Next]_vars

----------------------------------------------------------------------------
(* One run of createMesh for every shape of command line                   *)

\* the values of --path: the native extensions in several spellings, no
\* extension, a foreign one, a dot file, directories, two extensions, a
\* trailing period
PathValues ==
    { <<"s">> \o Ext_usd, <<"s",".","U","S","D">>, <<"s",".","U","s","d">>,
      <<"s">> \o Ext_usdc, <<"s",".","U","S","D","C">>, <<"s",".","U","s","d","C">>,
      <<"s">> \o Ext_usda, <<"s",".","U","S","D","A">>, <<"s",".","u","s","D","a">>,
      <<"s">>, <<"s",".","u","s","d","z">>, Ext_usdc, Ext_usd,
      <<"d","/","s">> \o Ext_usdc, <<"d">> \o Ext_usdc \o <<"/","s">>, <<"d">> \o Ext_usd \o <<"/","s">>,
      <<"s">> \o Ext_usdc \o Ext_usd, <<"s">> \o Ext_usd \o Ext_usdc, <<"s">> \o Ext_usda \o Ext_usdc,
      <<"s",".">> }

ArgvArgs ==
    {Argv("createMesh", usda, FALSE, FALSE, TRUE, path) : usda \in BOOLEAN, path \in PathValues}
    \cup {Argv("createMesh", usda, help, bad, FALSE, <<>>) : usda \in BOOLEAN, help \in BOOLEAN, bad \in BOOLEAN}
    \cup {Argv("createMesh", TRUE, help, bad, TRUE, <<"s">> \o Ext_usdc) : help \in BOOLEAN, bad \in BOOLEAN}

\* the disk before the run: empty, or a stage an earlier run has created at
\* the path of this one
DisksFor(a) ==
    LET p == parseCommonOptions(a).args.stagePath
    IN  {NoFiles} \cup
        (IF parseCommonOptions(a).how = "return" /\ CanCreate(p, {})
         THEN {(p :> CreatedStage(CreateArgs(p, Names.World, {})))}
         ELSE {})

InitArgs ==
    /\ \E a \in ArgvArgs :
         /\ StartRun(a)
         /\ disk \in DisksFor(a)
    /\ start = disk
    /\ runs = 1

NextArgs ==
    \/ ParseCommonOptions
    \/ Cout
    \/ OpenOrCreateStage
    \/ CallCubeMesh
    \/ SaveStage
    \/ Return

SpecArgs == InitArgs /\ [][NextArgs]_vars

\* parseCommonOptions has returned to main
Parsed == argv.prog \in AuthoringSamples /\ pc >= 1

\* the spellings of an extension in upper and lower case
Spellings(ext) ==
    {e \in [1..Len(ext) -> {ext[i] : i \in 1..Len(ext)} \cup {UpperChars[i] : i \in 1..26}] :
        \A i \in 1..Len(ext) :
            \/ e[i] = ext[i]
            \/ \E k \in 1..26 : LowerChars[k] = ext[i] /\ UpperChars[k] = e[i]}

\* the extension of the --path value is ext in some spelling
PathHasExt(ext) == argv.hasPath /\ extension(argv.path) \in Spellings(ext)

----------------------------------------------------------------------------
(* C6: parseCommonOptions exits with status 2 and the line "Error parsing  *)
(* arguments: Inconsistent use of --usda with a .usdc stage" exactly for   *)
(* --usda with a --path whose extension is .usdc in any spelling of upper  *)
(* and lower case, before any stage is opened or created; every other     *)
(* well-formed command line without --help makes it return.                *)
C6_RejectsUsdaWithUsdc ==
    (argv.prog \in AuthoringSamples /\ ~argv.bad /\ ~argv.help /\ (pc >= 1 \/ status # Running)) =>
        IF argv.usda /\ PathHasExt(Ext_usdc)
        THEN /\ status = Exited(2)
             /\ out = <<"Error parsing arguments: Inconsistent use of --usda with a .usdc stage">>
             /\ trace = <<>>
             /\ stage = NoStage
             /\ disk = start
        ELSE pc >= 1 /\ status.how # "exit"

\* C6 witness: --usda --path s.UsdC has been rejected
C6_Witness ==
    /\ argv.usda /\ argv.hasPath /\ argv.path = <<"s",".","U","s","d","C">>
    /\ status = Exited(2)

\* C7: the Args returned carry the file-format argument target=usda exactly
\* when --usda is set, --path is given and its extension is .usd in any
\* spelling; otherwise fileFormatArgs is empty, also for --usda with .usda
C7_FileFormatArgs ==
    Parsed =>
        IF argv.usda /\ PathHasExt(Ext_usd)
        THEN args.fileFormatArgs = {<<"target", "usda">>}
        ELSE args.fileFormatArgs = {}

\* C7 witness: --usda --path s.Usd has returned with the argument
C7_Witness ==
    /\ Parsed /\ argv.usda /\ argv.path = <<"s",".","U","s","d">>
    /\ args.fileFormatArgs # {}

\* C8 (as claimed): whenever parseCommonOptions returns with --usda set, the
\* stage path has the .usda extension or fileFormatArgs steers to usda
C8_UsdaSelectsText ==
    (Parsed /\ argv.usda) =>
        \/ extension(args.stagePath) \in Spellings(Ext_usda)
        \/ args.fileFormatArgs = {<<"target", "usda">>}

\* C9: the stage path returned is the --path value verbatim when --path is
\* given, and otherwise <tmp>/usdex/sample.usda with --usda and
\* <tmp>/usdex/sample.usdc without
C9_StagePath ==
    Parsed =>
        args.stagePath =
            IF argv.hasPath THEN argv.path
            ELSE IF argv.usda
                 THEN TmpDir \o <<"/","u","s","d","e","x","/","s","a","m","p","l","e",".","u","s","d","a">>
                 ELSE TmpDir \o <<"/","u","s","d","e","x","/","s","a","m","p","l","e",".","u","s","d","c">>

\* C9 witness: --usda without --path has returned the text default
C9_Witness == Parsed /\ argv.usda /\ ~argv.hasPath /\ args.stagePath # <<>>

----------------------------------------------------------------------------
(* The prim helpers of usdUtils.h called one after the other under one     *)
(* parent, as createRocket and createHouse call them                       *)

\* the number of helper calls in a behaviour
MaxPrims == 3

HelperNames == {"createCube", "createCone", "createSphere", "createCylinder", "createCapsule", "createCubeMesh"}

\* the names asked for: one twice over (the two fins), the name the second
\* fin gets, and one that is not a valid prim name
RequestedNames == {Names.fin, Names.fin \o <<"_", "1">>, Names.fin \o <<" ", "1">>}

\* the parent: the default prim of a new stage, without children or with
\* the child "fin" of an earlier run
ParentStages ==
    LET new == CreatedStage(CreateArgs(P_s_usd, Names.World, {}))
    IN  {new, DefinePrim(new, <<Names.World, Names.fin>>, "Xform")}

InitPrims ==
    /\ argv = Argv("setDisplayNames", FALSE, FALSE, FALSE, TRUE, P_s_usd)
    /\ args = parseCommonOptions(argv).args
    /\ pc = 0
    /\ status = Running
    /\ out = <<>>
    /\ trace = <<>>
    /\ stage \in ParentStages
    /\ locals = NoLocals
    /\ disk = NoFiles
    /\ start = NoFiles
    /\ runs = 1

\* one call samples::create<Shape>(stage->GetDefaultPrim(), name)
CallPrimHelper ==
    /\ Len(trace) < MaxPrims
    /\ \E h \in HelperNames, name \in RequestedNames :
         \E ok \in (IF h = "createCubeMesh" THEN BOOLEAN ELSE {TRUE}) :
            /\ stage' = IF h = "createCubeMesh"
                        THEN createCubeMesh(stage, DefaultPrimPath(stage), name, ok)
                        ELSE Helper(h, stage, DefaultPrimPath(stage), name)
            /\ trace' = Append(trace, Entry(h, ok, name))
    /\ UNCHANGED <<argv, args, pc, status, out, locals, disk, start, runs>>

NextPrims == CallPrimHelper

SpecPrims == InitPrims /\ [][NextPrims]_vars

\* the names of the children of the default prim, in definition order
Children(st) == [i \in 1..(Len(st.prims) - 1) |-> st.prims[i + 1].path[Len(st.prims[i + 1].path)]]

\* C10: every call of createCube, createCone, createSphere, createCylinder,
\* createCapsule or createCubeMesh that defines its prim adds exactly one
\* child to the parent, of the helper's type, at a name no child had before
\* the call, and leaves the prims that were there as they were (a
\* createCubeMesh whose mesh cannot be defined adds nothing); so the
\* children have pairwise distinct names after any sequence of calls
C10_HelpersAddOneNewChild ==
    /\ [](\A i, j \in 1..Len(Children(stage)) : i # j => Children(stage)[i] # Children(stage)[j])
    /\ [][ trace' # trace =>
             IF trace'[Len(trace')].ok
             THEN /\ Len(stage'.prims) = Len(stage.prims) + 1
                  /\ SubSeq(stage'.prims, 1, Len(stage.prims)) = stage.prims
                  /\ stage'.prims[Len(stage'.prims)].type = HelperType(trace'[Len(trace')].op)
                  /\ Len(stage'.prims[Len(stage'.prims)].path) = 2
                  /\ stage'.prims[Len(stage'.prims)].path[1] = Names.World
                  /\ \A i \in 1..Len(stage.prims) :
                        stage.prims[i].path # stage'.prims[Len(stage'.prims)].path
             ELSE stage' = stage ]_vars

\* C10 witness: two calls have asked for "fin" and the parent has the
\* children fin and fin_1
C10_Witness ==
    /\ argv.prog = "setDisplayNames" /\ pc = 0
    /\ \E i, j \in 1..Len(trace) : i < j /\ trace[i].arg = Names.fin /\ trace[j].arg = Names.fin
                                         /\ trace[i].ok /\ trace[j].ok
    /\ \E i, j \in 1..Len(Children(stage)) :
          Children(stage)[i] = Names.fin /\ Children(stage)[j] = <<"f","i","n","_","1">>

----------------------------------------------------------------------------
(* Claims about the runs of the samples                                    *)

\* the samples whose main calls samples::openOrCreateStage
OpeningSamples == AuthoringSamples \ {"createStage"}

\* a failure the code reports without acting on it: the two file-system
\* calls of copyTextureToStagePath, and the createCubeMesh calls of
\* createComponentStage, whose results are not looked at
OnlyReported(e) ==
    \/ e.op \in {"create_directories", "copy"}
    \/ e.op = "define" /\ e.arg[1] = Names.Cube_2x2x2

NoSave(tr) == \A i \in 1..Len(tr) : tr[i].op # "saveStage"

C2_SaveOnceAndLast ==
    argv.prog \in AuthoringSamples =>
        /\ status = Returned(0) =>
              /\ Len(trace) > 0
              /\ trace[Len(trace)].op = "saveStage"
              /\ trace[Len(trace)].arg = args.stagePath
              /\ NoSave(SubSeq(trace, 1, Len(trace) - 1))
        /\ status = Returned(-1) => NoSave(trace)

\* C2 witness: createMaterials has returned 0 after a texture copy failed
C2_Witness ==
    /\ argv.prog = "createMaterials"
    /\ status = Returned(0)
    /\ \E i \in 1..Len(trace) : trace[i].op = "copy" /\ ~trace[i].ok

\* the run has ended, and not by `return 0` or the exit(0) of --help
EndedOnError == status \notin {Running, Returned(0), Exited(0)}

\* C3 (as claimed): a program that ends on an error has printed a line and
\* its exit status is -1
C3_ErrorStatusMinusOne == EndedOnError => (Len(out) > 0 /\ status.code = -1)

\* C3 (amended): a program that ends on an error has printed a diagnostic
\* line and its exit status is not 0: 2 (by exit) for an error of the
\* command line, -2 when usdTraverse cannot open the stage, -1 when
\* usdTraverse is not given exactly one argument and when a sample's main
\* finds a failed stage, prim, mesh, material, component, asset or ground
C3_ErrorStatus ==
    EndedOnError =>
        /\ Len(out) > 0
        /\ IF argv.prog = "usdTraverse"
           THEN IF argv.hasPath /\ ~argv.bad
                THEN status = Returned(-2) /\ out[Len(out)] = "Failure to open stage.  Exiting."
                ELSE status = Returned(-1)
                     /\ out = <<"Please provide a local file path to a USD stage to read.">>
           ELSE IF pc = 0
                THEN /\ status = Exited(2)
                     /\ out[1] \in {"Error parsing options",
                                    "Error parsing arguments: Inconsistent use of --usda with a .usdc stage"}
                ELSE /\ status = Returned(-1)
                     /\ Cur.checked
                     /\ Cur.msg # ""
                     /\ out[Len(out)] = Cur.msg

\* C3 witness: usdTraverse has returned -2
C3_Witness == argv.prog = "usdTraverse" /\ status = Returned(-2) /\ Len(out) = 2

\* samples::openOrCreateStage has just returned to main
OpenReturned ==
    /\ argv.prog \in OpeningSamples
    /\ pc \in 1..Len(Main(argv.prog))
    /\ \/ status = Running /\ pc >= 2 /\ Main(argv.prog)[pc - 1].op = "open"
       \/ status = Returned(-1) /\ Main(argv.prog)[pc].op = "open"

\* the stage a sample expects of a stage it creates at its stage path
FreshStage ==
    [valid |-> TRUE, identifier |-> args.stagePath,
     format |-> IF args.fileFormatArgs = {<<"target", "usda">>}
                   \/ extension(args.stagePath) \in Spellings(Ext_usda) THEN "usda" ELSE "usdc",
     defaultPrim |-> Names.World, upAxis |-> "fallback", linearUnits |-> "centimeters",
     authoring |-> "OpenUSD Exchange Samples", comment |-> "",
     prims |-> << [path |-> <<Names.World>>, type |-> "Scope", displayName |-> <<>>, apis |-> {}] >>]

\* C4: openOrCreateStage calls createStage (default prim World, centimetres,
\* fallback up axis, the samples' authoring metadata, the file format
\* arguments) exactly when there is no layer at the identifier; when there
\* is one it opens it: the stage is the layer as it was on disk and nothing
\* is written, whatever the default prim name and file format arguments
C4_OpenOrCreate ==
    OpenReturned =>
        LET last  == trace[Len(trace)]
            found == args.stagePath \in DOMAIN start
        IN  /\ last.op = (IF found THEN "Open" ELSE "createStage")
            /\ trace[Len(trace) - 1].op = "FindOrOpen"
            /\ IF ~last.ok THEN ~stage.valid /\ disk = start /\ status = Returned(-1)
               ELSE IF found THEN stage = start[args.stagePath] /\ disk = start
               ELSE /\ stage = FreshStage
                    /\ disk = (args.stagePath :> FreshStage) @@ start
                    /\ last.arg = [identifier |-> args.stagePath, defaultPrimName |-> Names.World,
                                   upAxis |-> "fallback", linearUnits |-> "centimeters",
                                   authoringMetadata |-> "OpenUSD Exchange Samples",
                                   fileFormatArgs |-> args.fileFormatArgs]

\* C4 witness: a run with --usda --path s.usd has opened the binary s.usd of
\* an earlier run, with its prims
C4_Witness ==
    /\ OpenReturned /\ status = Running
    /\ args.fileFormatArgs # {}
    /\ stage.valid /\ stage.format = "usdc" /\ Len(stage.prims) > 1

\* C5: a run of createStage that has returned 0 has not opened a stage, and
\* the stage at its stage path is the default prim World with the children
\* cube and distantLight and nothing else, whatever was at the path before
C5_CreateStageOverwrites ==
    (argv.prog = "createStage" /\ status = Returned(0)) =>
        /\ \A i \in 1..Len(trace) : trace[i].op \notin {"FindOrOpen", "Open"}
        /\ args.stagePath \in DOMAIN disk
        /\ disk[args.stagePath] =
             [FreshStage EXCEPT
                !.comment = "OpenUSD Exchange Samples",
                !.prims = << [path |-> <<Names.World>>, type |-> "Scope", displayName |-> <<>>, apis |-> {}],
                             [path |-> <<Names.World, Names.cube>>, type |-> "Cube", displayName |-> <<>>, apis |-> {}],
                             [path |-> <<Names.World, Names.distantLight>>, type |-> "DistantLight",
                              displayName |-> <<>>, apis |-> {}] >>]

\* C5 witness: createStage has returned 0 on a path where an earlier run
\* had left a stage with other prims
C5_Witness ==
    /\ argv.prog = "createStage" /\ status = Returned(0)
    /\ args.stagePath \in DOMAIN start
    /\ \E i \in 1..Len(start[args.stagePath].prims) :
          start[args.stagePath].prims[i].type \notin {"Scope", "Cube", "DistantLight"}

----------------------------------------------------------------------------
(* Claims about createCubeMesh's display name                              *)

\* a name that is a valid prim name as it stands: a letter or an underscore
\* followed by letters, digits and underscores
IsValidPrimName(name) ==
    /\ Len(name) > 0
    /\ ~IsDigit(name[1])
    /\ \A i \in 1..Len(name) : IsAlpha(name[i]) \/ IsDigit(name[i]) \/ name[i] = "_"

\* the last helper call was a createCubeMesh that has defined its mesh
MeshJustCreated ==
    /\ Len(trace) > 0
    /\ trace[Len(trace)].op = "createCubeMesh"
    /\ trace[Len(trace)].ok

\* C11 (as claimed): the mesh createCubeMesh has created carries a display
\* name, equal to the requested meshName, if and only if the requested name
\* was not a valid prim name; for a valid name no display name is authored
C11_DisplayNameIffInvalid ==
    MeshJustCreated =>
        LET mesh == stage.prims[Len(stage.prims)]
            name == trace[Len(trace)].arg
        IN  /\ mesh.type = "Mesh"
            /\ IF IsValidPrimName(name) THEN mesh.displayName = <<>>
               ELSE mesh.displayName = name

----------------------------------------------------------------------------
(* Claims about copyTextureToStagePath                                     *)

\* the statements of main that have called copyTextureToStagePath so far
TextureCalls ==
    {k \in 1..Len(Main(argv.prog)) : Main(argv.prog)[k].op = "texture" /\ k < pc}

\* C12: every call of copyTextureToStagePath has returned the relative path
\* ./textures/<textureFile> to main, whatever the directory of the stage
\* and whether or not creating the directory and copying the file
\* succeeded; each failure has printed its line and nothing else: the run
\* has gone on to the next statement
C12_TexturePathAlwaysReturned ==
    (argv.prog \in AuthoringSamples /\ pc >= 1) =>
        /\ \A k \in TextureCalls :
              /\ Main(argv.prog)[k].as \in DOMAIN locals
              /\ locals[Main(argv.prog)[k].as] = <<".", "textures", Main(argv.prog)[k].type>>
        /\ Cardinality({i \in 1..Len(trace) : trace[i].op \in {"create_directories", "copy"}})
              = 2 * Cardinality(TextureCalls)
        /\ Cardinality({i \in 1..Len(out) : out[i] = "Error creating directories"})
              = Cardinality({i \in 1..Len(trace) : trace[i].op = "create_directories" /\ ~trace[i].ok})
        /\ Cardinality({i \in 1..Len(out) : out[i] = "Error copying file"})
              = Cardinality({i \in 1..Len(trace) : trace[i].op = "copy" /\ ~trace[i].ok})

\* C12 witness: createLights, run on a stage path without a directory, has
\* its texture path after both the directory creation and the copy failed,
\* and has returned 0
C12_Witness ==
    /\ argv.prog = "createLights" /\ status = Returned(0)
    /\ parent_path(args.stagePath) = <<>>
    /\ locals["texturePath"] = <<".", "textures", "kloofendal_48d_partly_cloudy.hdr">>
    /\ \E i \in 1..Len(trace) : trace[i].op = "create_directories" /\ ~trace[i].ok
    /\ \E i \in 1..Len(trace) : trace[i].op = "copy" /\ ~trace[i].ok

----------------------------------------------------------------------------
(* createPhysics run, and run again, on a stage that is already there      *)

ArgvPhysics == {Argv("createPhysics", usda, FALSE, FALSE, TRUE, P_s_usd) : usda \in BOOLEAN}

\* the stages createPhysics may find at its stage path: the stage of
\* another sample, a stage whose physics scene is a root prim next to the
\* default prim, a stage with a plane that is not a collider, and one with
\* both
ExistingStages ==
    LET new   == CreatedStage(CreateArgs(P_s_usd, Names.World, {}))
        scene == DefinePrim(new, <<Names.PhysicsScene>>, "PhysicsScene")
        plane == DefinePrim(new, <<Names.World, Names.ground>>, "Plane")
    IN  {new, scene, plane, DefinePrim(scene, <<Names.World, Names.ground>>, "Plane")}

InitPhysics ==
    /\ \E a \in ArgvPhysics : StartRun(a)
    /\ disk \in {NoFiles} \cup {(P_s_usd :> st) : st \in ExistingStages}
    /\ start = disk
    /\ runs = 1

\* createPhysics is started again once the run before has terminated
RerunPhysics ==
    /\ status # Running
    /\ runs < MaxRuns
    /\ \E a \in ArgvPhysics : argv' = a
    /\ args' = NoArgs
    /\ pc' = 0
    /\ status' = Running
    /\ out' = <<>>
    /\ trace' = <<>>
    /\ stage' = NoStage
    /\ locals' = NoLocals
    /\ start' = disk
    /\ runs' = runs + 1
    /\ UNCHANGED disk

NextPhysics ==
    \/ ParseCommonOptions
    \/ Cout
    \/ OpenOrCreateStage
    \/ CreatePhysicsScene
    \/ CreateGroundWithCollision
    \/ Define
    \/ SaveStage
    \/ Return
    \/ RerunPhysics

SpecPhysics == InitPhysics /\ [][NextPhysics]_vars

\* the prims of the given type in the stage
PrimsOfType(st, type) == {i \in 1..Len(st.prims) : st.prims[i].type = type}

\* C13 (as claimed): after a run of createPhysics, whatever stage was at the
\* stage path before, the stage holds exactly one PhysicsScene prim
C13_OnePhysicsScene ==
    (argv.prog = "createPhysics" /\ status = Returned(0)) =>
        Cardinality(PrimsOfType(disk[args.stagePath], "PhysicsScene")) = 1

\* createGroundWithCollision has just returned true to main
GroundReturnedTrue ==
    /\ argv.prog = "createPhysics" /\ status = Running
    /\ pc \in 2..Len(Main(argv.prog))
    /\ Main(argv.prog)[pc - 1].op = "ground"

\* createGroundWithCollision has just returned false to main
GroundReturnedFalse ==
    /\ argv.prog = "createPhysics" /\ status = Returned(-1)
    /\ pc \in 1..Len(Main(argv.prog))
    /\ Main(argv.prog)[pc].op = "ground"

\* C14 (as claimed): when createGroundWithCollision has returned true the
\* stage holds exactly one plane under the default prim and the plane has
\* the physics collision API applied; it returns false only when defining
\* the plane failed, and main then prints 'Error creating ground, exiting'
\* and returns -1
C14_GroundPlaneWithCollision ==
    /\ GroundReturnedTrue =>
          LET planes == {i \in PrimRange(stage, <<Names.World>>) : stage.prims[i].type = "Plane"}
          IN  /\ Cardinality(planes) = 1
              /\ \A i \in planes : "PhysicsCollisionAPI" \in stage.prims[i].apis
    /\ GroundReturnedFalse =>
          /\ trace[Len(trace)].op = "define" /\ ~trace[Len(trace)].ok
          /\ out[Len(out)] = "Error creating ground, exiting"

----------------------------------------------------------------------------
(* Claims about createSkelMesh                                             *)

\* the stage openOrCreateStage has given the run
OpenedStage == IF args.stagePath \in DOMAIN start THEN start[args.stagePath] ELSE FreshStage

\* the disk as openOrCreateStage has left it
OpenedDisk == IF args.stagePath \in DOMAIN start THEN start ELSE (args.stagePath :> FreshStage) @@ start

\* createSkelMesh has called topo.Validate and nothing since
Validated ==
    /\ argv.prog = "createSkeleton"
    /\ Len(trace) > 0
    /\ trace[Len(trace)].op = "Validate"

\* the operations of createSkelMesh up to its last one
SkelOpsBefore == {i \in 1..(Len(trace) - 1) : trace[i].op \in {"define", "call", "getValidChildNames"}}

\* C15 (as claimed): createSkelMesh validates the topology before it
\* authors anything of the skeleton; when the topology is invalid it prints
\* 'Invalid skeleton topology', main prints its error and returns -1 without
\* saving, and the stage on disk is as it was before the run
C15_ValidateBeforeAuthoring ==
    Validated =>
        /\ SkelOpsBefore = {}
        /\ stage = OpenedStage
        /\ ~trace[Len(trace)].ok =>
              /\ status = Returned(-1)
              /\ NoSave(trace)
              /\ disk = start

\* C15 (amended): createSkelMesh validates the topology after it has
\* defined the SkelRoot, set its transform and defined the Skeleton prim,
\* and before it sets joints, bind and rest transforms, the animation, the
\* stage's time metadata and the mesh.  When the topology is invalid it has
\* printed 'Invalid skeleton topology', main has printed 'Error creating
\* skeletal mesh group, exiting' and returned -1 without saving: the two
\* prims exist in memory only and the stage on disk is as openOrCreateStage
\* left it (unchanged if it was there, the new stage with World otherwise)
C15_InvalidTopologyStops ==
    /\ Validated =>
          /\ Len(stage.prims) = Len(OpenedStage.prims) + 2
          /\ SubSeq(stage.prims, 1, Len(OpenedStage.prims)) = OpenedStage.prims
          /\ stage.prims[Len(stage.prims) - 1].type = "SkelRoot"
          /\ stage.prims[Len(stage.prims)].type = "Skeleton"
          /\ \A i \in SkelOpsBefore : trace[i].op = "call" => trace[i].arg = "setLocalTransform"
          /\ ~trace[Len(trace)].ok =>
                /\ status = Returned(-1)
                /\ Len(out) >= 2
                /\ out[Len(out) - 1] = "Invalid skeleton topology"
                /\ out[Len(out)] = "Error creating skeletal mesh group, exiting"
                /\ NoSave(trace)
                /\ disk = OpenedDisk
    /\ argv.prog = "createSkeleton" =>
          \A i \in 1..Len(trace) :
              (trace[i].op = "call" /\ trace[i].arg # "setLocalTransform") =>
                  \E j \in 1..(i - 1) : trace[j].op = "Validate" /\ trace[j].ok

\* C15 witness: the validation has failed in a run on a stage that an
\* earlier run has left on disk
C15_Witness ==
    /\ Validated /\ ~trace[Len(trace)].ok
    /\ status = Returned(-1)
    /\ args.stagePath \in DOMAIN start

====
